---- MODULE Spec2Model ----
(***************************************************************************)
(* Model of the catalog builder scripts/update_data.py (and its earlier    *)
(* revision scripts/generate_abc_file_list.py).                            *)
(*                                                                         *)
(* A text is a sequence of one-character strings; the regular expressions  *)
(* and string methods of the scripts are operators over such sequences.    *)
(* A run of update_data.py is a state machine: ensure the content root,    *)
(* walk it (os.walk, top-down, the order inside one directory free), visit *)
(* each file, sort, write the output module; first for abc/, then docs/.   *)
(***************************************************************************)
EXTENDS Integers, Sequences, FiniteSets, TLC

(* ------------------------------ bounds --------------------------------- *)

MaxAbcFiles == 2

MaxDocFiles == 2

MaxRuns == 2

(* ------------------------------ characters ----------------------------- *)

LowerCase == <<"a","b","c","d","e","f","g","h","i","j","k","l","m",
               "n","o","p","q","r","s","t","u","v","w","x","y","z">>

UpperCase == <<"A","B","C","D","E","F","G","H","I","J","K","L","M",
               "N","O","P","Q","R","S","T","U","V","W","X","Y","Z">>

Digits == <<"0","1","2","3","4","5","6","7","8","9">>

Range(s) == { s[i] : i \in DOMAIN s }

IndexOf(c, s) == CHOOSE i \in DOMAIN s : s[i] = c

\* The code point of a character: Python compares str values by code point.
Ord(c) ==
    CASE c \in Range(LowerCase) -> 96 + IndexOf(c, LowerCase)
      [] c \in Range(UpperCase) -> 64 + IndexOf(c, UpperCase)
      [] c \in Range(Digits)    -> 47 + IndexOf(c, Digits)
      [] c = "\t" -> 9
      [] c = "\n" -> 10
      [] c = "\f" -> 12
      [] c = "\r" -> 13
      [] c = " "  -> 32
      [] c = "#"  -> 35
      [] c = "."  -> 46
      [] c = "/"  -> 47
      [] c = ":"  -> 58
      [] c = "\\" -> 92
      [] c = "_"  -> 95

\* \s of the re module, and the characters str.strip() removes.
IsSpace(c) == c \in {" ", "\t", "\n", "\r", "\f"}

\* \d of the re module.
IsDigit(c) == c \in Range(Digits)

IsCased(c) == c \in Range(LowerCase) \cup Range(UpperCase)

ToUpper(c) == IF c \in Range(LowerCase) THEN UpperCase[IndexOf(c, LowerCase)] ELSE c

ToLower(c) == IF c \in Range(UpperCase) THEN LowerCase[IndexOf(c, UpperCase)] ELSE c

(* ------------------------------ str methods ---------------------------- *)

RECURSIVE LStrip(_)
LStrip(s) == IF s # <<>> /\ IsSpace(Head(s)) THEN LStrip(Tail(s)) ELSE s

RECURSIVE RStrip(_)
RStrip(s) ==
    IF s # <<>> /\ IsSpace(s[Len(s)]) THEN RStrip(SubSeq(s, 1, Len(s) - 1)) ELSE s

\* str.strip()
Strip(s) == RStrip(LStrip(s))

StartsWith(s, p) == Len(p) <= Len(s) /\ SubSeq(s, 1, Len(p)) = p

\* str.endswith(p)
EndsWith(s, p) == Len(p) <= Len(s) /\ SubSeq(s, Len(s) - Len(p) + 1, Len(s)) = p

\* str.replace(old, new): every non-overlapping occurrence, left to right.
RECURSIVE Replace(_, _, _)
Replace(s, old, new) ==
    IF s = <<>> THEN <<>>
    ELSE IF StartsWith(s, old)
         THEN new \o Replace(SubSeq(s, Len(old) + 1, Len(s)), old, new)
         ELSE <<Head(s)>> \o Replace(Tail(s), old, new)

\* str.title(): a cased character is upper-cased when the character before it
\* is not cased, and lower-cased otherwise.
Title(s) ==
    [i \in DOMAIN s |->
        IF IsCased(s[i])
        THEN IF i > 1 /\ IsCased(s[i - 1]) THEN ToLower(s[i]) ELSE ToUpper(s[i])
        ELSE s[i]]

\* Lexicographic order of two texts by code point (str.__lt__).
RECURSIVE TextLess(_, _)
TextLess(a, b) ==
    IF b = <<>> THEN FALSE
    ELSE IF a = <<>> THEN TRUE
    ELSE IF Head(a) = Head(b) THEN TextLess(Tail(a), Tail(b))
    ELSE Ord(Head(a)) < Ord(Head(b))

\* Lexicographic order of two tuples of texts (tuple.__lt__).
RECURSIVE TupleLess(_, _)
TupleLess(k1, k2) ==
    IF k2 = <<>> THEN FALSE
    ELSE IF k1 = <<>> THEN TRUE
    ELSE IF Head(k1) = Head(k2) THEN TupleLess(Tail(k1), Tail(k2))
    ELSE TextLess(Head(k1), Head(k2))

(* ------------------------------ os.path -------------------------------- *)

Slash == <<"/">>

\* Index of the last "/" of p, 0 when there is none (str.rfind('/') + 1).
LastSlash(p) ==
    LET S == { i \in DOMAIN p : p[i] = "/" }
    IN  IF S = {} THEN 0 ELSE CHOOSE i \in S : \A j \in S : j <= i

RECURSIVE RStripSlash(_)
RStripSlash(s) ==
    IF s # <<>> /\ s[Len(s)] = "/" THEN RStripSlash(SubSeq(s, 1, Len(s) - 1)) ELSE s

\* posixpath.dirname
dirname(p) ==
    LET head == SubSeq(p, 1, LastSlash(p))
    IN  IF head # <<>> /\ \E i \in DOMAIN head : head[i] # "/"
        THEN RStripSlash(head)
        ELSE head

\* posixpath.basename
basename(p) == SubSeq(p, LastSlash(p) + 1, Len(p))

\* os.path.relpath(os.path.join(root, file), top) for root = top/d1/.../dn:
\* the components d1 .. dn and the file name, joined by "/".
RECURSIVE JoinPath(_, _)
JoinPath(dir, name) ==
    IF dir = <<>> THEN name ELSE Head(dir) \o Slash \o JoinPath(Tail(dir), name)

relpath(f) == JoinPath(f.dir, f.name)

(* ------------------------------ re.search ------------------------------ *)

\* ^ under re.MULTILINE: the start of the text or just after a newline.
LineStart(c, i) == i = 1 \/ c[i - 1] = "\n"

\* The first position at or after k where $ matches under re.MULTILINE: the
\* end of the text or just before a newline. (.*?) stops there, "." never
\* matching a newline.
RECURSIVE EndOfLine(_, _)
EndOfLine(c, k) == IF k <= Len(c) /\ c[k] # "\n" THEN EndOfLine(c, k + 1) ELSE k

\* \s* and \s+ are greedy: the first position at or after k that holds no
\* whitespace. What follows them (\d, or (.*?)$) never needs one given back.
RECURSIVE SkipSpace(_, _)
SkipSpace(c, k) == IF k <= Len(c) /\ IsSpace(c[k]) THEN SkipSpace(c, k + 1) ELSE k

\* The least element of a non-empty set of positions (re.search is leftmost).
First(S) == CHOOSE i \in S : \A j \in S : i <= j

\* The positions where r'^X:\s*(\d+)' matches.
XFieldMatches(c) ==
    { i \in DOMAIN c :
        /\ LineStart(c, i)
        /\ i + 1 <= Len(c)
        /\ c[i] = "X"
        /\ c[i + 1] = ":"
        /\ LET k == SkipSpace(c, i + 2) IN k <= Len(c) /\ IsDigit(c[k]) }

\* The positions where r'T:(.*?)$' matches.
TitleMatches(c) ==
    { i \in DOMAIN c : i + 1 <= Len(c) /\ c[i] = "T" /\ c[i + 1] = ":" }

\* The positions where r'^#\s+(.*?)$' matches.
HeadingMatches(c) ==
    { i \in DOMAIN c :
        /\ LineStart(c, i)
        /\ c[i] = "#"
        /\ i + 1 <= Len(c)
        /\ IsSpace(c[i + 1]) }

(* ------------------------------ files ---------------------------------- *)

\* A file under a content root: the directories from the root down to it, its
\* name, its text, and whether open() and read() succeed on it.
AbcCandidates ==
    { [dir |-> <<>>, name |-> <<"t", ".", "a", "b", "c">>,
       content |-> <<"X", ":", "1", "\n", "T", ":", "S">>, readable |-> TRUE],
      [dir |-> <<>>, name |-> <<"u", ".", "a", "b", "c">>,
       content |-> <<"X", ":", "1", "\n", "T", ":", "S">>, readable |-> TRUE],
      [dir |-> <<>>, name |-> <<"u", ".", "a", "b", "c">>,
       content |-> <<"X", ":", "1", "\n", "T", ":", "S">>, readable |-> FALSE],
      [dir |-> <<>>, name |-> <<"t", ".", "a", "b", "c">>,
       content |-> <<"X", ":", "\n", "1">>, readable |-> TRUE],
      [dir |-> <<>>, name |-> <<"n", ".", "m", "d">>,
       content |-> <<"X", ":", "1", "\n", "T", ":", "S">>, readable |-> TRUE],
      [dir |-> <<<<"a">>>>, name |-> <<"t", ".", "a", "b", "c">>,
       content |-> <<"X", ":", "1", "\n", "T", ":", " ", "R", " ", "\n">>, readable |-> TRUE],
      [dir |-> <<<<"a">>>>, name |-> <<"t", ".", "a", "b", "c">>,
       content |-> <<"X", ":", "1", "\n", "K", ":", "T", ":", "r", "\n", "T", ":", "S">>, readable |-> TRUE],
      [dir |-> <<<<"a">>>>, name |-> <<"u", ".", "a", "b", "c">>,
       content |-> <<"T", ":", "S">>, readable |-> TRUE],
      [dir |-> <<<<"a">>>>, name |-> <<"u", ".", "a", "b", "c">>,
       content |-> <<"X", ":", "1", "\n", "K", ":", "T", ":", "r">>, readable |-> TRUE],
      [dir |-> <<<<"a">>, <<"b">>>>, name |-> <<"t", ".", "a", "b", "c">>,
       content |-> <<"X", ":", "1">>, readable |-> TRUE],
      [dir |-> <<<<"b">>>>, name |-> <<"t", ".", "a", "b", "c", ".", "a", "b", "c">>,
       content |-> <<"X", ":", "1">>, readable |-> TRUE] }

DocCandidates ==
    { [dir |-> <<>>, name |-> <<"g", ".", "m", "d">>,
       content |-> <<"#", " ", "G">>, readable |-> TRUE],
      [dir |-> <<>>, name |-> <<"g", ".", "m", "d">>,
       content |-> <<"#", " ", "\n", "B">>, readable |-> TRUE],
      [dir |-> <<>>, name |-> <<"h", ".", "m", "d">>,
       content |-> <<"i", "n", "t", "r", "o", "\n", "#", " ", "G", " ", "\n", "#", " ", "H">>, readable |-> TRUE],
      [dir |-> <<>>, name |-> <<"s", "_", "n", ".", "m", "d">>,
       content |-> <<"x", " ", "#">>, readable |-> TRUE],
      [dir |-> <<>>, name |-> <<"s", "_", "n", ".", "m", "d">>,
       content |-> <<"#", " ", "G">>, readable |-> FALSE] }

(* ------------------------------ per-file functions --------------------- *)

AbcExt == <<".", "a", "b", "c">>

MdExt == <<".", "m", "d">>

General == <<"G", "e", "n", "e", "r", "a", "l">>

\* The except clause of is_valid_abc_file answering True.
is_valid_abc_file_ExceptTrue(f) ==
    IF f.readable THEN XFieldMatches(f.content) # {} ELSE TRUE

\* is_valid_abc_file: the X: pattern found in the text read; a failed open or
\* read is caught and answers False.
is_valid_abc_file(f) ==
    IF f.readable THEN XFieldMatches(f.content) # {} ELSE FALSE

\* extract_title: group(1) of the leftmost T: match, stripped; without a match,
\* or when the read fails (caught), the base name with every ".abc" removed.
extract_title(f) ==
    IF f.readable /\ TitleMatches(f.content) # {}
    THEN LET i == First(TitleMatches(f.content))
         IN  Strip(SubSeq(f.content, i + 2, EndOfLine(f.content, i + 2) - 1))
    ELSE Replace(basename(relpath(f)), AbcExt, <<>>)

\* extract_doc_title: group(1) of the leftmost heading match, stripped; without
\* a match, or when the read fails (caught), the base name with every ".md"
\* removed, "_" replaced by " ", title-cased.
extract_doc_title(f) ==
    IF f.readable /\ HeadingMatches(f.content) # {}
    THEN LET i == First(HeadingMatches(f.content))
             k == SkipSpace(f.content, i + 1)
         IN  Strip(SubSeq(f.content, k, EndOfLine(f.content, k) - 1))
    ELSE Title(Replace(Replace(basename(relpath(f)), MdExt, <<>>), <<"_">>, <<" ">>))

\* category = os.path.dirname(rel_path); 'General' if it equals '.'.
Category(rel_path) ==
    LET category == dirname(rel_path)
    IN  IF category = <<".">> THEN General ELSE category

\* rel_path.replace('\\', '/')
UrlPath(rel_path) == Replace(rel_path, <<"\\">>, Slash)

\* The dict appended to file_list by generate_abc_file_list.
AbcEntry(f) ==
    [name |-> extract_title(f),
     file |-> UrlPath(relpath(f)),
     category |-> Category(relpath(f))]

\* The dict appended to file_list by generate_docs_file_list.
DocEntry(f) ==
    [name |-> extract_doc_title(f), file |-> UrlPath(relpath(f))]

(* ------------------------------ list.sort ------------------------------ *)

\* The sort key without the category.
AbcKey_NameOnly(e) == <<e.name>>

\* key=lambda x: (x["category"], x["name"])
AbcKey(e) == <<e.category, e.name>>

\* key=lambda x: x["name"]
DocKey(e) == <<e.name>>

\* One step of a stable insertion: e goes after every element whose key is not
\* greater than its own. s holds [key, val] pairs, ascending by key.
RECURSIVE InsertByKey(_, _)
InsertByKey(s, e) ==
    IF s = <<>> THEN <<e>>
    ELSE IF TupleLess(e.key, Head(s).key) THEN <<e>> \o s
    ELSE <<Head(s)>> \o InsertByKey(Tail(s), e)

\* list.sort(key=...) on the decorated list: ascending by key, stable.
RECURSIVE StableSort(_)
StableSort(s) ==
    IF s = <<>> THEN <<>>
    ELSE InsertByKey(StableSort(SubSeq(s, 1, Len(s) - 1)), s[Len(s)])

Undecorate(s) == [i \in DOMAIN s |-> s[i].val]

\* file_list.sort(key=lambda x: (x["category"], x["name"]))
SortAbc(list) ==
    Undecorate(StableSort([i \in DOMAIN list |-> [key |-> AbcKey(list[i]), val |-> list[i]]]))

\* file_list.sort(key=lambda x: x["name"])
SortDocs(list) ==
    Undecorate(StableSort([i \in DOMAIN list |-> [key |-> DocKey(list[i]), val |-> list[i]]]))

\* The module opened with 'a' in place of 'w'.
WriteModule_Append(old, list) == [exists |-> TRUE, entries |-> old.entries \o list]

\* open(js_file_path, 'w') and the writes: the module is created or truncated
\* and holds json.dumps(file_list), which is one-to-one on lists of dicts of
\* strings, so the module's text is represented by the list it encodes.
WriteModule(old, list) == [exists |-> TRUE, entries |-> list]

NoModule == [exists |-> FALSE, entries |-> <<>>]

(* ------------------------------ os.walk -------------------------------- *)

\* The files directly in directory d (the "files" of the tuple os.walk yields).
FilesIn(files, d) == { f \in files : f.dir = d }

\* The subdirectories of d (the "dirs" of the tuple os.walk yields).
Subdirs(files, d) ==
    { SubSeq(f.dir, 1, Len(d) + 1) :
        f \in { g \in files : Len(g.dir) > Len(d) /\ SubSeq(g.dir, 1, Len(d)) = d } }

\* The walk's pending directories, a stack of sets: the subdirectories of one
\* directory are walked in the order scandir lists them, which is not fixed,
\* each with its whole subtree before the next. Emptied sets are dropped.
PushDirs(dirs, rest) == IF dirs = {} THEN rest ELSE <<dirs>> \o rest

(* ------------------------------ state ---------------------------------- *)

VARIABLES
    pc,             \* where the run is
    runs,           \* runs started so far
    abcDir,         \* whether <project>/abc exists
    docsDir,        \* whether <project>/docs exists
    abcFiles,       \* the files under <project>/abc
    docsFiles,      \* the files under <project>/docs
    stack,          \* os.walk: directories not yet listed
    pending,        \* os.walk: files of the listed directory not yet visited
    file_list,      \* the local file_list of the running generate_* function
    abcOut,         \* js/data/abc-file-list.js
    docsOut,        \* js/data/docs-file-list.js
    visitedAbc,     \* history: the abc files in the order the walk gave them
    visitedDocs,    \* history: the docs files in the order the walk gave them
    prevAbcOut,     \* history: abc-file-list.js when the run started
    prevDocsOut,    \* history: docs-file-list.js when the run started
    abcDirAtStart,  \* history: whether abc/ existed when the run started
    docsDirAtStart, \* history: whether docs/ existed when the run started
    changed,        \* history: the content roots changed since the last start
    sameInputs      \* history: this run reads the files the run before it read

vars == <<pc, runs, abcDir, docsDir, abcFiles, docsFiles, stack, pending,
          file_list, abcOut, docsOut, visitedAbc, visitedDocs, prevAbcOut,
          prevDocsOut, abcDirAtStart, docsDirAtStart, changed, sameInputs>>

fsVars == <<abcDir, docsDir, abcFiles, docsFiles>>

histVars == <<prevAbcOut, prevDocsOut, abcDirAtStart, docsDirAtStart, changed, sameInputs>>

Path(f) == <<f.dir, f.name>>

\* The trees a content root can hold: up to max candidate files, no two at
\* one path.
Trees(candidates, max) ==
    { S \in SUBSET candidates :
        /\ Cardinality(S) <= max
        /\ \A f, g \in S : Path(f) = Path(g) => f = g }

\* Before the first run: any content trees (a root without files may be
\* missing), no output module yet.
Init ==
    /\ pc = "idle"
    /\ runs = 0
    /\ abcFiles \in Trees(AbcCandidates, MaxAbcFiles)
    /\ docsFiles \in Trees(DocCandidates, MaxDocFiles)
    /\ abcDir \in { b \in BOOLEAN : abcFiles # {} => b }
    /\ docsDir \in { b \in BOOLEAN : docsFiles # {} => b }
    /\ stack = <<>>
    /\ pending = {}
    /\ file_list = <<>>
    /\ abcOut = NoModule
    /\ docsOut = NoModule
    /\ visitedAbc = <<>>
    /\ visitedDocs = <<>>
    /\ prevAbcOut = NoModule
    /\ prevDocsOut = NoModule
    /\ abcDirAtStart = abcDir
    /\ docsDirAtStart = docsDir
    /\ changed = FALSE
    /\ sameInputs = FALSE

(* ------------------------------ the run -------------------------------- *)

\* python3 update_data.py
Start ==
    /\ pc \in {"idle", "done"}
    /\ runs < MaxRuns
    /\ pc' = "abc_mkdir"
    /\ runs' = runs + 1
    /\ prevAbcOut' = abcOut
    /\ prevDocsOut' = docsOut
    /\ abcDirAtStart' = abcDir
    /\ docsDirAtStart' = docsDir
    /\ sameInputs' = (runs >= 1 /\ ~changed)
    /\ changed' = FALSE
    /\ file_list' = <<>>
    /\ visitedAbc' = <<>>
    /\ visitedDocs' = <<>>
    /\ UNCHANGED <<fsVars, stack, pending, abcOut, docsOut>>

\* generate_abc_file_list: makedirs when abc/ is missing, file_list = [],
\* os.walk(abc_dir) begins.
AbcEnsureDir ==
    /\ pc = "abc_mkdir"
    /\ abcDir' = TRUE
    /\ stack' = << {<<>>} >>
    /\ pending' = {}
    /\ file_list' = <<>>
    /\ visitedAbc' = <<>>
    /\ pc' = "abc_walk"
    /\ UNCHANGED <<runs, docsDir, abcFiles, docsFiles, abcOut, docsOut,
                   visitedDocs, histVars>>

\* os.walk yields the next directory of abc/.
AbcWalkDir ==
    /\ pc = "abc_walk"
    /\ pending = {}
    /\ stack # <<>>
    /\ \E d \in Head(stack) :
        /\ pending' = FilesIn(abcFiles, d)
        /\ stack' = PushDirs(Subdirs(abcFiles, d),
                             PushDirs(Head(stack) \ {d}, Tail(stack)))
    /\ UNCHANGED <<pc, runs, fsVars, file_list, abcOut, docsOut, visitedAbc,
                   visitedDocs, histVars>>

\* One iteration of "for file in files" of generate_abc_file_list.
AbcVisit ==
    /\ pc = "abc_walk"
    /\ \E f \in pending :
        /\ pending' = pending \ {f}
        /\ visitedAbc' = Append(visitedAbc, f)
        /\ file_list' =
              IF EndsWith(f.name, AbcExt) /\ is_valid_abc_file(f)
              THEN Append(file_list, AbcEntry(f))
              ELSE file_list
    /\ UNCHANGED <<pc, runs, fsVars, stack, abcOut, docsOut, visitedDocs, histVars>>

\* The walk of abc/ is over: sort file_list and write abc-file-list.js.
AbcWrite ==
    /\ pc = "abc_walk"
    /\ pending = {}
    /\ stack = <<>>
    /\ file_list' = SortAbc(file_list)
    /\ abcOut' = WriteModule(abcOut, file_list')
    /\ pc' = "docs_mkdir"
    /\ UNCHANGED <<runs, fsVars, stack, pending, docsOut, visitedAbc,
                   visitedDocs, histVars>>

\* generate_docs_file_list: makedirs when docs/ is missing, file_list = [],
\* os.walk(docs_dir) begins.
DocsEnsureDir ==
    /\ pc = "docs_mkdir"
    /\ docsDir' = TRUE
    /\ stack' = << {<<>>} >>
    /\ pending' = {}
    /\ file_list' = <<>>
    /\ visitedDocs' = <<>>
    /\ pc' = "docs_walk"
    /\ UNCHANGED <<runs, abcDir, abcFiles, docsFiles, abcOut, docsOut,
                   visitedAbc, histVars>>

\* os.walk yields the next directory of docs/.
DocsWalkDir ==
    /\ pc = "docs_walk"
    /\ pending = {}
    /\ stack # <<>>
    /\ \E d \in Head(stack) :
        /\ pending' = FilesIn(docsFiles, d)
        /\ stack' = PushDirs(Subdirs(docsFiles, d),
                             PushDirs(Head(stack) \ {d}, Tail(stack)))
    /\ UNCHANGED <<pc, runs, fsVars, file_list, abcOut, docsOut, visitedAbc,
                   visitedDocs, histVars>>

\* One iteration of "for file in files" of generate_docs_file_list.
DocsVisit ==
    /\ pc = "docs_walk"
    /\ \E f \in pending :
        /\ pending' = pending \ {f}
        /\ visitedDocs' = Append(visitedDocs, f)
        /\ file_list' =
              IF EndsWith(f.name, MdExt)
              THEN Append(file_list, DocEntry(f))
              ELSE file_list
    /\ UNCHANGED <<pc, runs, fsVars, stack, abcOut, docsOut, visitedAbc, histVars>>

\* The walk of docs/ is over: sort file_list and write docs-file-list.js; the
\* script ends.
DocsWrite ==
    /\ pc = "docs_walk"
    /\ pending = {}
    /\ stack = <<>>
    /\ file_list' = SortDocs(file_list)
    /\ docsOut' = WriteModule(docsOut, file_list')
    /\ pc' = "done"
    /\ UNCHANGED <<runs, fsVars, stack, pending, abcOut, visitedAbc,
                   visitedDocs, histVars>>

(* ------------------------------ between runs --------------------------- *)

\* Between two runs the content roots may change: one change after a run, the
\* different trees a run can start from being those of Init.

\* The abc/ tree is removed between two runs (what "not os.path.exists(abc_dir)"
\* then sees).
RemoveAbcDir ==
    /\ pc = "done"
    /\ abcDir
    /\ abcDir' = FALSE
    /\ abcFiles' = {}
    /\ changed' = TRUE
    /\ pc' = "idle"
    /\ UNCHANGED <<runs, docsDir, docsFiles, stack, pending, file_list, abcOut,
                   docsOut, visitedAbc, visitedDocs, prevAbcOut, prevDocsOut,
                   abcDirAtStart, docsDirAtStart, sameInputs>>

\* The docs/ tree is removed between two runs.
RemoveDocsDir ==
    /\ pc = "done"
    /\ docsDir
    /\ docsDir' = FALSE
    /\ docsFiles' = {}
    /\ changed' = TRUE
    /\ pc' = "idle"
    /\ UNCHANGED <<runs, abcDir, abcFiles, stack, pending, file_list, abcOut,
                   docsOut, visitedAbc, visitedDocs, prevAbcOut, prevDocsOut,
                   abcDirAtStart, docsDirAtStart, sameInputs>>

\* One file is deleted between two runs.
DeleteFile ==
    /\ pc = "done"
    /\ \E f \in abcFiles \cup docsFiles :
        /\ abcFiles' = abcFiles \ {f}
        /\ docsFiles' = docsFiles \ {f}
    /\ changed' = TRUE
    /\ pc' = "idle"
    /\ UNCHANGED <<runs, abcDir, docsDir, stack, pending, file_list, abcOut,
                   docsOut, visitedAbc, visitedDocs, prevAbcOut, prevDocsOut,
                   abcDirAtStart, docsDirAtStart, sameInputs>>

Next ==
    \/ Start
    \/ AbcEnsureDir
    \/ AbcWalkDir
    \/ AbcVisit
    \/ AbcWrite
    \/ DocsEnsureDir
    \/ DocsWalkDir
    \/ DocsVisit
    \/ DocsWrite
    \/ RemoveAbcDir
    \/ RemoveDocsDir
    \/ DeleteFile

Spec == Init /\ [][Next]_vars

(* ------------------------------ vocabulary of the claims --------------- *)

\* The terms in which the claims are stated. Apart from AbcListOf and DocListOf,
\* which are the two loops as functions of the walk order, they follow the
\* wording of the claims and not the code.

\* The run has ended and the content roots are as the run read them.
RunDone == pc = "done"

\* The lists the two loops build from files visited in the given order.
RECURSIVE AbcListOf(_)
AbcListOf(fs) ==
    IF fs = <<>> THEN <<>>
    ELSE LET f == fs[Len(fs)]
             before == AbcListOf(SubSeq(fs, 1, Len(fs) - 1))
         IN  IF EndsWith(f.name, AbcExt) /\ is_valid_abc_file(f)
             THEN Append(before, AbcEntry(f))
             ELSE before

RECURSIVE DocListOf(_)
DocListOf(fs) ==
    IF fs = <<>> THEN <<>>
    ELSE LET f == fs[Len(fs)]
             before == DocListOf(SubSeq(fs, 1, Len(fs) - 1))
         IN  IF EndsWith(f.name, MdExt) THEN Append(before, DocEntry(f)) ELSE before

IsReadable(f) == f.readable

\* The positions of the entries of a catalog that describe file f.
EntriesOf(out, f) == { i \in DOMAIN out.entries : out.entries[i].file = relpath(f) }

\* Whitespace that stays on the line.
IsBlank(c) == IsSpace(c) /\ c # "\n"

RECURSIVE SkipBlank(_, _)
SkipBlank(c, k) == IF k <= Len(c) /\ IsBlank(c[k]) THEN SkipBlank(c, k + 1) ELSE k

\* A line starts with "X:" and, after optional blanks, holds a digit.
HasIdentifierLine(c) ==
    \E i \in DOMAIN c :
        /\ LineStart(c, i)
        /\ i + 1 <= Len(c)
        /\ c[i] = "X"
        /\ c[i + 1] = ":"
        /\ LET k == SkipBlank(c, i + 2) IN k <= Len(c) /\ IsDigit(c[k])

\* The positions of the lines that start with "T:".
TitleLines(c) ==
    { i \in DOMAIN c : LineStart(c, i) /\ i + 1 <= Len(c) /\ c[i] = "T" /\ c[i + 1] = ":" }

\* The positions of the lines that start with "#" and a blank.
HeadingLines(c) ==
    { i \in DOMAIN c : LineStart(c, i) /\ i + 1 <= Len(c) /\ c[i] = "#" /\ IsBlank(c[i + 1]) }

\* The text of the line from position k to its end, trimmed.
RestOfLine(c, k) == Strip(SubSeq(c, k, EndOfLine(c, k) - 1))

\* A file name without its trailing extension.
WithoutExt(name, ext) ==
    IF EndsWith(name, ext) THEN SubSeq(name, 1, Len(name) - Len(ext)) ELSE name

\* The title derived from a documentation file's name.
FileNameTitle(f) == Title(Replace(WithoutExt(f.name, MdExt), <<"_">>, <<" ">>))

(* ------------------------------ claims --------------------------------- *)

\* C1: a notation file that passes the validity gate and sits directly in the
\* content root is catalogued with category "General".
C1_RootCategoryGeneral ==
    RunDone =>
        \A f \in abcFiles :
            LastSlash(relpath(f)) = 0 =>
                \A i \in EntriesOf(abcOut, f) : abcOut.entries[i].category = General

\* C2: a catalogued notation file in a subfolder, at any depth, has as category
\* the name of its immediate parent directory only.
C2_CategoryIsImmediateParent ==
    RunDone =>
        \A f \in abcFiles :
            f.dir # <<>> =>
                \A i \in EntriesOf(abcOut, f) :
                    abcOut.entries[i].category = f.dir[Len(f.dir)]

\* C3: a readable .abc file is in the notation catalog if and only if some line
\* of it starts with "X:" followed, after blanks, by digits on that line.
C3_CatalogedIffIdentifierLine ==
    RunDone =>
        \A f \in abcFiles :
            (f.readable /\ EndsWith(f.name, AbcExt)) =>
                (EntriesOf(abcOut, f) # {} <=> HasIdentifierLine(f.content))

\* C4: for a notation file with no line that starts with "T:", the title is the
\* base name with only its trailing ".abc" removed.
C4_NoTitleLineGivesBaseName ==
    RunDone =>
        \A f \in abcFiles :
            (f.readable /\ TitleLines(f.content) = {}) =>
                \A i \in EntriesOf(abcOut, f) :
                    abcOut.entries[i].name = WithoutExt(f.name, AbcExt)

\* C5: for a valid notation file with a line that starts with "T:", the name is
\* the trimmed text after the marker on the first such line.
C5_TitleFromFirstTitleLine ==
    RunDone =>
        \A f \in abcFiles :
            (f.readable /\ TitleLines(f.content) # {}) =>
                \A i \in EntriesOf(abcOut, f) :
                    abcOut.entries[i].name =
                        RestOfLine(f.content, First(TitleLines(f.content)) + 2)

\* C6: the notation catalog is ascending by (category, name): an entry with a
\* smaller category, or the same category and a smaller name, comes first.
C6_CatalogSorted ==
    \A i, j \in DOMAIN abcOut.entries :
        LET A == abcOut.entries[i]
            B == abcOut.entries[j]
        IN  /\ TextLess(A.category, B.category) => i < j
            /\ (A.category = B.category /\ TextLess(A.name, B.name)) => i < j

\* A run ended whose walk did not meet the files in catalog order.
C6_Witness ==
    /\ RunDone
    /\ Len(abcOut.entries) >= 2
    /\ abcOut.entries # AbcListOf(visitedAbc)

\* C7: a second run over the same files writes the same two modules, whatever
\* the order in which the walks meet the files.
C7_OutputIndependentOfWalkOrder ==
    (RunDone /\ sameInputs) => (abcOut = prevAbcOut /\ docsOut = prevDocsOut)

\* C8: with unreadable files among the inputs the run goes on to its end, writes
\* both modules, leaves every unreadable notation file out, lists every
\* unreadable documentation file under its file-name title, and catalogues the
\* other files as if the unreadable ones were absent.
C8_UnreadableFilesDegrade ==
    RunDone =>
          /\ abcOut.exists
          /\ docsOut.exists
          /\ \A f \in abcFiles : ~f.readable => EntriesOf(abcOut, f) = {}
          /\ \A f \in docsFiles :
                (~f.readable /\ EndsWith(f.name, MdExt)) =>
                    /\ Cardinality(EntriesOf(docsOut, f)) = 1
                    /\ \A i \in EntriesOf(docsOut, f) :
                          docsOut.entries[i].name = FileNameTitle(f)
          /\ abcOut.entries = SortAbc(AbcListOf(SelectSeq(visitedAbc, IsReadable)))
          /\ LET readablePaths == { relpath(f) : f \in { g \in docsFiles : g.readable } }
                 OfReadable(e) == e.file \in readablePaths
             IN  SelectSeq(docsOut.entries, OfReadable) =
                     SortDocs(DocListOf(SelectSeq(visitedDocs, IsReadable)))

\* A run ended that met an unreadable notation file and an unreadable
\* documentation file beside files it catalogued.
C8_Witness ==
    /\ RunDone
    /\ \E f \in abcFiles : ~f.readable
    /\ \E f \in docsFiles : ~f.readable
    /\ abcOut.entries # <<>>
    /\ Len(docsOut.entries) >= 2

\* C9: after a run both content roots and both modules exist; a root that was
\* missing at the start gives an empty catalog; and a module holds nothing but
\* the entries of files the run found, one per file at most.
C9_RootsCreatedModulesOverwritten ==
    RunDone =>
        /\ abcDir /\ docsDir
        /\ abcOut.exists /\ docsOut.exists
        /\ ~abcDirAtStart => abcOut.entries = <<>>
        /\ ~docsDirAtStart => docsOut.entries = <<>>
        /\ \A i \in DOMAIN abcOut.entries :
              \E f \in abcFiles : abcOut.entries[i].file = relpath(f)
        /\ \A i \in DOMAIN docsOut.entries :
              \E f \in docsFiles : docsOut.entries[i].file = relpath(f)
        /\ Len(abcOut.entries) <= Cardinality(abcFiles)
        /\ Len(docsOut.entries) <= Cardinality(docsFiles)

\* A run ended that started without abc/ while abc-file-list.js held the
\* entries of an earlier run.
C9_Witness ==
    /\ RunDone
    /\ ~abcDirAtStart
    /\ prevAbcOut.exists
    /\ prevAbcOut.entries # <<>>

\* C10: a documentation file with a line that starts with "#" and whitespace is
\* named by the trimmed rest of the first such line, that line only; one without
\* is named by its file name; the entry has the keys name and file only.
C10_DocTitleFromHeadingLine ==
    RunDone =>
        \A f \in docsFiles :
            (f.readable /\ EndsWith(f.name, MdExt)) =>
                \A i \in EntriesOf(docsOut, f) :
                    LET e == docsOut.entries[i]
                    IN  /\ DOMAIN e = {"name", "file"}
                        /\ e.name =
                              IF HeadingLines(f.content) # {}
                              THEN RestOfLine(f.content, First(HeadingLines(f.content)) + 1)
                              ELSE FileNameTitle(f)

====
